---- MODULE Spec2Model ----
(***************************************************************************)
(* Model of dags/project.py: the listing crawl (scrape_list_pages), the    *)
(* detail extraction (scrape_movie_metadata_efficient), the batch          *)
(* coordinator (scrape_all_movies_batch) and the two normalisers.          *)
(*                                                                         *)
(* Strings are sequences.  A URL is a sequence of lexical tokens: the word *)
(* tokens "https", "http", "m" and "www.rottentomatoes.com" stand for      *)
(* themselves, every other token is one character.  Titles, score texts    *)
(* and runtime values are sequences of one-character strings.              *)
(***************************************************************************)
EXTENDS Integers, Sequences, FiniteSets, TLC

(* ------------------------------ bounds --------------------------------- *)
MaxUrlLen == 5

(* --------------------------- string helpers ---------------------------- *)
Min(a, b) == IF a < b THEN a ELSE b

Prefix(s, n) == SubSeq(s, 1, Min(n, Len(s)))

Drop(s, n) == SubSeq(s, n + 1, Len(s))

StartsWith(s, p) == Len(s) >= Len(p) /\ SubSeq(s, 1, Len(p)) = p

Contains(s, c) == \E k \in 1..Len(s) : s[k] = c

\* str.find(c, start): first position >= start holding a member of cs, 0 if none
FindFrom(s, cs, start) ==
    LET hits == {k \in start..Len(s) : s[k] \in cs}
    IN  IF hits = {} THEN 0 ELSE CHOOSE k \in hits : \A j \in hits : k <= j

\* str.rfind(c): last position holding c, 0 if none
RFind(s, c) ==
    LET hits == {k \in 1..Len(s) : s[k] = c}
    IN  IF hits = {} THEN 0 ELSE CHOOSE k \in hits : \A j \in hits : k >= j

\* str.rstrip(chars)
RECURSIVE RStrip(_, _)
RStrip(s, cs) ==
    IF s # <<>> /\ s[Len(s)] \in cs THEN RStrip(SubSeq(s, 1, Len(s) - 1), cs) ELSE s

\* str.lstrip(chars)
RECURSIVE LStrip(_, _)
LStrip(s, cs) ==
    IF s # <<>> /\ s[1] \in cs THEN LStrip(Tail(s), cs) ELSE s

RECURSIVE SeqsUpTo(_, _)
SeqsUpTo(S, n) ==
    IF n = 0 THEN {<<>>}
    ELSE LET shorter == SeqsUpTo(S, n - 1)
         IN  shorter \cup {Append(s, c) : s \in {t \in shorter : Len(t) = n - 1}, c \in S}

(* ----------------------------- normalize_url --------------------------- *)
SiteHost == "www.rottentomatoes.com"

HttpPrefix == <<"http", ":", "/", "/">>

HttpsPrefix == <<"https", ":", "/", "/">>

\* tokens made only of letters, digits, '+', '-', '.', starting with a letter
WordTokens == {"https", "http", "m", "a", "b", SiteHost}

\* urllib.parse.uses_params, restricted to the schemes the tokens can spell
UsesParams == {<<>>, <<"http">>, <<"https">>}

\* s[:k - 1] when k > 0, s otherwise
CutAt(s, k) == IF k = 0 THEN s ELSE SubSeq(s, 1, k - 1)

\* url.split(c)[0]
SplitFirst(s, c) == CutAt(s, FindFrom(s, {c}, 1))

\* urlsplit: position of the ':' that ends the scheme, 0 when there is no scheme
SchemeEndAt(url, p) ==
    IF p > 1 /\ \A k \in 1..(p - 1) : url[k] \in WordTokens THEN p ELSE 0

SchemeEnd(url) == SchemeEndAt(url, FindFrom(url, {":"}, 1))

\* urlsplit: the path is what is left before '#' and '?'
SplitPath(scheme, netloc, rest) ==
    [scheme |-> scheme, netloc |-> netloc,
     path |-> SplitFirst(SplitFirst(rest, "#"), "?"),
     ok |-> ~(Contains(netloc, "[") /\ ~Contains(netloc, "]"))]

\* urlsplit: the netloc runs from after '//' to the next '/', '?' or '#'
NetlocEndAt(rest, delim) == IF delim = 0 THEN Len(rest) ELSE delim - 1

NetlocEnd(rest) == NetlocEndAt(rest, FindFrom(rest, {"/", "?", "#"}, 3))

SplitNetlocAt(scheme, rest, e) == SplitPath(scheme, SubSeq(rest, 3, e), Drop(rest, e))

SplitNetloc(scheme, rest) ==
    IF Prefix(rest, 2) = <<"/", "/">>
    THEN SplitNetlocAt(scheme, rest, NetlocEnd(rest))
    ELSE SplitPath(scheme, <<>>, rest)

SplitScheme(url, p) == SplitNetloc(SubSeq(url, 1, p - 1), Drop(url, p))

\* urllib.parse.urlsplit without query and fragment: [scheme, netloc, path, ok];
\* ok is FALSE where urlsplit raises ValueError
urlsplit(url) == SplitScheme(url, SchemeEnd(url))

\* urllib.parse._splitparams, path component only
ParamStart(path, slash) ==
    IF slash > 0 THEN FindFrom(path, {";"}, slash) ELSE FindFrom(path, {";"}, 1)

splitparams(path) == CutAt(path, ParamStart(path, RFind(path, "/")))

StripParams(r) ==
    IF r.scheme \in UsesParams /\ Contains(r.path, ";")
    THEN [r EXCEPT !.path = splitparams(r.path)]
    ELSE r

urlparse(url) == StripParams(urlsplit(url))

\* the prefix step for URLs that do not start with http:// or https://
ResolvePrefix(url) ==
    IF StartsWith(url, HttpPrefix) \/ StartsWith(url, HttpsPrefix) THEN url
    ELSE IF StartsWith(url, <<"/", "/">>) THEN <<"https", ":">> \o url
    ELSE IF StartsWith(url, <<"/">>) THEN <<"https", ":", "/", "/", SiteHost>> \o url
    ELSE url

\* the try block and its except branch
RenderParsed(u, parsed) ==
    IF parsed.ok
    THEN RStrip(parsed.scheme \o <<":", "/", "/">> \o parsed.netloc \o parsed.path, {"/"})
    ELSE RStrip(SplitFirst(SplitFirst(u, "?"), "#"), {"/"})

Render(u) == RenderParsed(u, urlparse(u))

normalize_url(url) == IF url = <<>> THEN <<>> ELSE Render(ResolvePrefix(url))

(* ---------------------------- normalize_title -------------------------- *)
Whitespace == {" ", "\t"}

UpperCase == {"A", "B", "H", "M", "S"}

LowerCase == {"a", "b", "c", "d", "e", "h", "i", "m", "n", "o", "p", "r", "s", "t", "u"}

\* the characters matched by \w
WordChars == UpperCase \cup LowerCase \cup {"_"} \cup {"0", "1", "2", "3", "4", "5", "6", "7", "8", "9"}

LowerOf(c) ==
    CASE c = "A" -> "a" [] c = "B" -> "b" [] c = "H" -> "h" [] c = "M" -> "m"
      [] c = "S" -> "s" [] OTHER -> c

\* str.lower()
lower(s) == [k \in 1..Len(s) |-> LowerOf(s[k])]

\* str.strip()
strip(s) == RStrip(LStrip(s, Whitespace), Whitespace)

\* re.sub(r'\s+', ' ', s)
RECURSIVE CollapseWs(_)
CollapseWs(s) ==
    IF s = <<>> THEN <<>>
    ELSE IF s[1] \in Whitespace THEN <<" ">> \o CollapseWs(LStrip(s, Whitespace))
    ELSE <<s[1]>> \o CollapseWs(Tail(s))

\* re.sub(r'[^\w\s]', '', s)
DropPunct(s) == SelectSeq(s, LAMBDA c : c \in WordChars \cup Whitespace)

normalize_title(title) ==
    IF title = <<>> THEN <<>>
    ELSE DropPunct(CollapseWs(strip(lower(title))))

(* ------------------------------- state --------------------------------- *)
VARIABLES
    \* normalisers: inputs, results and position
    url_in, url_out, url_out2, npc, title_a, title_b, ntitle_a, ntitle_b,
    \* scrape_all_movies_batch
    movies,          \* the input list
    max_concurrent,  \* the semaphore's initial value
    bpc,             \* coordinator position: "loop", "gather", "sleep", "done"
    chunk_i,         \* the loop variable i (0-based, as in the source)
    status,          \* per task: "created", "waiting", "inflight", "settled"
    sem_value,       \* free slots of the semaphore
    extraction,      \* per task: how its extraction ended ("none" before)
    returned,        \* per task: the record its extraction returned (NoValue if none)
    task_result,     \* per task: what process_movie_with_semaphore returned
    all_results,     \* the list being returned
    sleeps,          \* pacing pauses completed
    overtaken,       \* TRUE once an extraction has settled while the extraction of
                     \* an earlier entry was still in flight
    \* scrape_list_pages
    lpc,             \* position: "open", "goto", "links", "finally", "done"
    page_idx,        \* 1-based position in PAGES of the page being visited
    dom,             \* the anchors with '/m/' in their href on the loaded page
    use_secondary,   \* TRUE when movie_links is the secondary locator
    count,           \* the value of count
    li,              \* the loop variable i of the candidate loop
    movies_dict,     \* insertion-ordered dictionary: sequence of [key, value]
    page_handle,     \* the page opened for this iteration: "none", "open", "closed"
    unique_movies,   \* the returned list
    visited,         \* the page numbers a page was opened for, in order
    last_load,       \* how page.goto of the running iteration ended: "ok", "failed"
                     \* ("none" before it and between iterations)
    offered,         \* TRUE when the link of the latest loop round offered a
                     \* Candidate (FALSE outside the candidate loop)
    link_error,      \* TRUE when the latest loop round of the running page ended in
                     \* the except clause of the candidate
    \* scrape_movie_metadata_efficient
    dpc,             \* position in the function
    d_url, d_title,  \* the arguments
    metadata,        \* the dictionary being filled (NoValue before it exists)
    browser,         \* "none", "launched"
    close_calls,     \* number of browser.close() calls performed
    d_result,        \* the returned dictionary (NoValue before return)
    raw_runtime,     \* the first value read from the runtime row (Unset if none)
    tier_snaps,      \* the two scores as they stood after tier 1, 2 and 3
    nav_failed,      \* TRUE once set_viewport_size or goto has raised
    scores,          \* tier 2's local scores object, while control is between
                     \* tier 2 and tier 3 (NoValue otherwise; never read later)
    rt_texts         \* the texts of tier 3's rt_texts elements, while control is
                     \* just behind tier 3 (NoTexts otherwise; never read later)

nvars == <<url_in, url_out, url_out2, npc, title_a, title_b, ntitle_a, ntitle_b>>

bvars == <<movies, max_concurrent, bpc, chunk_i, status, sem_value, extraction,
           returned, task_result, all_results, sleeps, overtaken>>

lghost == <<visited, last_load, offered, link_error>>

lvars == <<lpc, page_idx, dom, use_secondary, count, li, movies_dict, page_handle,
           unique_movies, lghost>>

dlocals == <<nav_failed, scores, rt_texts>>

dvars == <<dpc, d_url, d_title, metadata, browser, close_calls, d_result, raw_runtime,
           tier_snaps, dlocals>>

vars == <<nvars, bvars, lvars, dvars>>

notNorm == <<bvars, lvars, dvars>>

notBatch == <<nvars, lvars, dvars>>

notList == <<nvars, bvars, dvars>>

notDetail == <<nvars, bvars, lvars>>

Unset == <<"<unset>">>

\* Python's None is the empty tuple; a score n is <<n>>; a string that is set
\* is a non-empty sequence of characters
None == <<>>

NoValue == [none |-> TRUE]

\* rt_texts while no scan result is held
NoTexts == <<Unset>>

NormIdle ==
    /\ url_in = <<>> /\ url_out = Unset /\ url_out2 = Unset /\ npc = "idle"
    /\ title_a = <<>> /\ title_b = <<>> /\ ntitle_a = Unset /\ ntitle_b = Unset

BatchIdle ==
    /\ movies = <<>> /\ max_concurrent = 0 /\ bpc = "idle" /\ chunk_i = 0
    /\ status = <<>> /\ sem_value = 0 /\ extraction = <<>> /\ returned = <<>>
    /\ task_result = <<>> /\ all_results = <<>> /\ sleeps = 0
    /\ overtaken = FALSE

ListIdle ==
    /\ lpc = "idle" /\ page_idx = 0 /\ dom = <<>> /\ use_secondary = FALSE /\ count = 0
    /\ li = 0 /\ movies_dict = <<>> /\ page_handle = "none" /\ unique_movies = <<>>
    /\ visited = <<>> /\ last_load = "none" /\ offered = FALSE /\ link_error = FALSE

DetailIdle ==
    /\ dpc = "idle" /\ d_url = "" /\ d_title = "" /\ metadata = NoValue /\ browser = "none"
    /\ close_calls = 0 /\ d_result = NoValue /\ raw_runtime = Unset /\ tier_snaps = <<>>
    /\ nav_failed = FALSE /\ scores = NoValue /\ rt_texts = NoTexts

(* --------------------- the normalisers as operations ------------------- *)
MaxTitleLen == 3

UrlAlphabet == {"https", "m", ":", "/", "?", "#", ";", "["}

TitleAlphabet == {"A", "a", " ", "\t", "!"}

InitUrl ==
    /\ url_in \in SeqsUpTo(UrlAlphabet, MaxUrlLen)
    /\ url_out = Unset /\ url_out2 = Unset /\ npc = "raw"
    /\ title_a = <<>> /\ title_b = <<>> /\ ntitle_a = Unset /\ ntitle_b = Unset
    /\ BatchIdle /\ ListIdle /\ DetailIdle

NormalizeUrl ==
    /\ npc = "raw"
    /\ url_out' = normalize_url(url_in)
    /\ npc' = "once"
    /\ UNCHANGED <<url_in, url_out2, title_a, title_b, ntitle_a, ntitle_b, notNorm>>

NormalizeUrlAgain ==
    /\ npc = "once"
    /\ url_out2' = normalize_url(url_out)
    /\ npc' = "twice"
    /\ UNCHANGED <<url_in, url_out, title_a, title_b, ntitle_a, ntitle_b, notNorm>>

NextUrl == NormalizeUrl \/ NormalizeUrlAgain

SpecUrl == InitUrl /\ [][NextUrl]_vars

InitTitle ==
    /\ title_a \in SeqsUpTo(TitleAlphabet, MaxTitleLen)
    /\ title_b \in SeqsUpTo(TitleAlphabet, MaxTitleLen)
    /\ ntitle_a = Unset /\ ntitle_b = Unset /\ npc = "raw"
    /\ url_in = <<>> /\ url_out = Unset /\ url_out2 = Unset
    /\ BatchIdle /\ ListIdle /\ DetailIdle

NormalizeTitles ==
    /\ npc = "raw"
    /\ ntitle_a' = normalize_title(title_a)
    /\ ntitle_b' = normalize_title(title_b)
    /\ npc' = "once"
    /\ UNCHANGED <<title_a, title_b, url_in, url_out, url_out2, notNorm>>

NextTitle == NormalizeTitles

SpecTitle == InitTitle /\ [][NextTitle]_vars

(* ----------------------- scrape_all_movies_batch ------------------------ *)
chunk_size == 10

MaxMovies == 11

MaxConcurrent == 2

MaxFaults == 2

\* the k-th entry handed to the coordinator
Entry(k) == [url |-> k, title |-> 100 + k]

\* the dictionary scrape_movie_metadata_efficient builds on its normal path
FullRecord(url, title) ==
    [url |-> url, title |-> title, tomatometer_score |-> None, audience_score |-> None,
     genre |-> None, rating |-> None, duration |-> None, release_date |-> None,
     director |-> None, original_language |-> None, box_office |-> None,
     distributor |-> None, error |-> None]

\* the three-key dictionary of the two failure paths
FailureRecord(url, title, err) == [url |-> url, title |-> title, error |-> err]

\* the ways one call of scrape_movie_metadata_efficient(url, title) can end
ExtractionOutcomes(movie) ==
    {[kind |-> "return", value |-> FullRecord(movie.url, movie.title)],
     [kind |-> "return", value |-> FailureRecord(movie.url, movie.title, "navigation error")],
     [kind |-> "raise", error |-> "browser error"]}

OutcomeName(o) ==
    IF o.kind = "raise" THEN "raise"
    ELSE IF DOMAIN o.value = {"url", "title", "error"} THEN "failrec" ELSE "record"

\* the try/except inside process_movie_with_semaphore
ProcessDropsError(movie, o) ==
    IF o.kind = "return" THEN o.value ELSE <<>>

process_movie_with_semaphore(movie, o) ==
    IF o.kind = "return" THEN o.value
    ELSE FailureRecord(movie.url, movie.title, o.error)

IsException(result) == DOMAIN result = {"exception"}

\* Python truth value of a gathered result
Truthy(result) == DOMAIN result # {}

\* one round of the loop over chunk_results
AppendOnlyRecords(acc, result, movie) ==
    IF IsException(result) THEN acc
    ELSE IF Truthy(result) /\ "genre" \in DOMAIN result THEN Append(acc, result)
    ELSE acc

AppendOutcome(acc, result, movie) ==
    IF IsException(result)
    THEN Append(acc, FailureRecord(movie.url, movie.title, result.exception))
    ELSE IF Truthy(result) THEN Append(acc, result)
    ELSE acc

\* 1-based positions of tasks[i:i + chunk_size]
ChunkUnbounded(i, n) == (i + 1)..n

Chunk(i, n) == (i + 1)..Min(i + chunk_size, n)

\* the results of a chunk taken from its last task to its first
RECURSIVE AggregateBackwards(_, _, _)
AggregateBackwards(acc, k, last) ==
    IF k > last THEN acc
    ELSE AggregateBackwards(AppendOutcome(acc, task_result[last], movies[last]), k, last - 1)

\* "for j, result in enumerate(chunk_results)": gather returns the results in
\* the order of its arguments
RECURSIVE AggregateFrom(_, _, _)
AggregateFrom(acc, k, last) ==
    IF k > last THEN acc
    ELSE AggregateFrom(AppendOutcome(acc, task_result[k], movies[k]), k + 1, last)

NumTasks == Len(movies)

InFlight == {t \in 1..NumTasks : status[t] = "inflight"}

Faults == {t \in 1..NumTasks : extraction[t] \in {"failrec", "raise"}}

\* the lengths of the input list: none, few, one full chunk, more than one
BatchSizes == {0, 1, 2, chunk_size, MaxMovies}

InitBatch ==
    /\ \E n \in BatchSizes : movies = [k \in 1..n |-> Entry(k)]
    /\ max_concurrent \in 1..MaxConcurrent
    /\ sem_value = max_concurrent
    /\ status = [k \in 1..Len(movies) |-> "created"]
    /\ extraction = [k \in 1..Len(movies) |-> "none"]
    /\ returned = [k \in 1..Len(movies) |-> NoValue]
    /\ task_result = [k \in 1..Len(movies) |-> NoValue]
    /\ bpc = "loop" /\ chunk_i = 0 /\ all_results = <<>> /\ sleeps = 0
    /\ overtaken = FALSE
    /\ NormIdle /\ ListIdle /\ DetailIdle

\* asyncio.gather(*chunk): the chunk's coroutines become tasks and each runs
\* up to "async with semaphore"
DispatchChunk ==
    /\ bpc = "loop" /\ chunk_i < NumTasks
    /\ status' = [t \in 1..NumTasks |->
                    IF t \in Chunk(chunk_i, NumTasks) THEN "waiting" ELSE status[t]]
    /\ bpc' = "gather"
    /\ UNCHANGED <<movies, max_concurrent, chunk_i, sem_value, extraction, returned,
                   task_result, all_results, sleeps, overtaken, notBatch>>

\* a task passes "async with semaphore" and enters scrape_movie_metadata_efficient;
\* tasks reach the semaphore in argument order and waiters wake first-in first-out
AcquireUngated(t) ==
    /\ bpc = "gather" /\ status[t] = "waiting"
    /\ \A u \in 1..NumTasks : status[u] = "waiting" => t <= u
    /\ sem_value' = sem_value - 1
    /\ status' = [status EXCEPT ![t] = "inflight"]
    /\ UNCHANGED <<movies, max_concurrent, bpc, chunk_i, extraction, returned,
                   task_result, all_results, sleeps, overtaken, notBatch>>

Acquire(t) ==
    /\ bpc = "gather" /\ status[t] = "waiting"
    /\ \A u \in 1..NumTasks : status[u] = "waiting" => t <= u
    /\ sem_value > 0
    /\ sem_value' = sem_value - 1
    /\ status' = [status EXCEPT ![t] = "inflight"]
    /\ UNCHANGED <<movies, max_concurrent, bpc, chunk_i, extraction, returned,
                   task_result, all_results, sleeps, overtaken, notBatch>>

\* the extraction of task t ends and the slot is given back only when the
\* extraction returned
ExtractionSettlesLeaks(t, o) ==
    /\ status[t] = "inflight"
    /\ OutcomeName(o) # "record" => Cardinality(Faults) < MaxFaults
    /\ extraction' = [extraction EXCEPT ![t] = OutcomeName(o)]
    /\ returned' = [returned EXCEPT ![t] = IF o.kind = "return" THEN o.value ELSE NoValue]
    /\ task_result' = [task_result EXCEPT ![t] = process_movie_with_semaphore(movies[t], o)]
    /\ sem_value' = IF o.kind = "return" THEN sem_value + 1 ELSE sem_value
    /\ status' = [status EXCEPT ![t] = "settled"]
    /\ overtaken' = (overtaken \/ \E u \in 1..(t - 1) : status[u] = "inflight")
    /\ UNCHANGED <<movies, max_concurrent, bpc, chunk_i, all_results, sleeps, notBatch>>

\* the extraction of task t ends; the task leaves the semaphore and finishes
ExtractionSettles(t, o) ==
    /\ status[t] = "inflight"
    /\ OutcomeName(o) # "record" => Cardinality(Faults) < MaxFaults
    /\ extraction' = [extraction EXCEPT ![t] = OutcomeName(o)]
    /\ returned' = [returned EXCEPT ![t] = IF o.kind = "return" THEN o.value ELSE NoValue]
    /\ task_result' = [task_result EXCEPT ![t] = process_movie_with_semaphore(movies[t], o)]
    /\ sem_value' = sem_value + 1
    /\ status' = [status EXCEPT ![t] = "settled"]
    /\ overtaken' = (overtaken \/ \E u \in 1..(t - 1) : status[u] = "inflight")
    /\ UNCHANGED <<movies, max_concurrent, bpc, chunk_i, all_results, sleeps, notBatch>>

\* a pause after every chunk, the final one included
PauseAlways(i, n) == TRUE

\* "if i + chunk_size < len(tasks)": another chunk follows the one at i
MoreChunks(i, n) == i + chunk_size < n

\* gather returns once every task of the chunk is done; the results are
\* appended in chunk order; the loop either pauses or moves on
GatherReturns ==
    /\ bpc = "gather"
    /\ \A t \in Chunk(chunk_i, NumTasks) : status[t] = "settled"
    /\ all_results' = AggregateFrom(all_results, chunk_i + 1, Min(chunk_i + chunk_size, NumTasks))
    /\ IF MoreChunks(chunk_i, NumTasks)
       THEN bpc' = "sleep" /\ chunk_i' = chunk_i
       ELSE bpc' = "loop" /\ chunk_i' = chunk_i + chunk_size
    /\ UNCHANGED <<movies, max_concurrent, status, sem_value, extraction, returned,
                   task_result, sleeps, overtaken, notBatch>>

\* asyncio.sleep(1) between chunks ends
PacingElapsed ==
    /\ bpc = "sleep"
    /\ sleeps' = sleeps + 1
    /\ chunk_i' = chunk_i + chunk_size
    /\ bpc' = "loop"
    /\ UNCHANGED <<movies, max_concurrent, status, sem_value, extraction, returned,
                   task_result, all_results, overtaken, notBatch>>

\* the loop is exhausted: return all_results
ReturnResults ==
    /\ bpc = "loop" /\ chunk_i >= NumTasks
    /\ bpc' = "done"
    /\ UNCHANGED <<movies, max_concurrent, chunk_i, status, sem_value, extraction,
                   returned, task_result, all_results, sleeps, overtaken, notBatch>>

NextBatch ==
    \/ DispatchChunk
    \/ \E t \in 1..NumTasks : Acquire(t)
    \/ \E t \in 1..NumTasks : \E o \in ExtractionOutcomes(movies[t]) : ExtractionSettles(t, o)
    \/ GatherReturns
    \/ PacingElapsed
    \/ ReturnResults

SpecBatch == InitBatch /\ [][NextBatch]_vars

\* the inputs of the runs followed to their end: no entry, one entry, more
\* than one chunk; the narrowest gate and the widest
FairBatchSizes == {0, 1, MaxMovies}

FairGates == {1, MaxConcurrent}

InitBatchFair ==
    /\ \E n \in FairBatchSizes : movies = [k \in 1..n |-> Entry(k)]
    /\ max_concurrent \in FairGates
    /\ sem_value = max_concurrent
    /\ status = [k \in 1..Len(movies) |-> "created"]
    /\ extraction = [k \in 1..Len(movies) |-> "none"]
    /\ returned = [k \in 1..Len(movies) |-> NoValue]
    /\ task_result = [k \in 1..Len(movies) |-> NoValue]
    /\ bpc = "loop" /\ chunk_i = 0 /\ all_results = <<>> /\ sleeps = 0
    /\ overtaken = FALSE
    /\ NormIdle /\ ListIdle /\ DetailIdle

\* the event loop runs every callback that is ready, and a started extraction
\* settles: no step of the coordinator and no task that can move waits for ever
FairSpecBatch ==
    /\ InitBatchFair /\ [][NextBatch]_vars
    /\ WF_vars(DispatchChunk)
    /\ WF_vars(\E t \in 1..NumTasks : Acquire(t))
    /\ WF_vars(\E t \in 1..NumTasks :
                 \E o \in ExtractionOutcomes(movies[t]) : ExtractionSettles(t, o))
    /\ WF_vars(GatherReturns)
    /\ WF_vars(PacingElapsed)
    /\ WF_vars(ReturnResults)

(* --------------------------- scrape_list_pages -------------------------- *)
MaxLinks == 2

PAGES == [k \in 1..8 |-> k - 1]

\* title.lower() in [...]
DenyList ==
    {<<"t", "o", "m", "a", "t", "o", "m", "e", "t", "e", "r">>,
     <<"a", "u", "d", "i", "e", "n", "c", "e", " ", "s", "c", "o", "r", "e">>,
     <<"p", "o", "p", "c", "o", "r", "n", "m", "e", "t", "e", "r">>,
     <<"s", "c", "o", "r", "e">>}

\* what a read of the page can deliver
ReadError == <<"<error>">>

AttrNone == <<"<none>">>

\* texts the title span of a candidate can hold
TitleTexts ==
    {<<"A">>, <<"a", "!">>, <<" ", "B", " ">>, <<" ">>, <<"!">>,
     <<"S", "c", "o", "r", "e">>}

\* href values of a candidate
Hrefs ==
    {<<"/", "m", "/", "a">>, <<"/", "m", "/", "a", "/", "?", "m">>, <<"/", "m", "/", "b">>,
     <<"m", "/", "a">>}

\* an anchor whose href contains '/m/': does it hold a span.p--small, does it
\* lie inside [data-qa='discovery-media-list']; an anchor with neither is
\* matched by no selector and is left out
Anchors == {a \in [has_span : BOOLEAN, in_list : BOOLEAN] : a.has_span \/ a.in_list}

\* page.locator("a[href*='/m/']:has(span.p--small)")
PrimaryLinks(d) == SelectSeq(d, LAMBDA a : a.has_span)

\* page.locator("[data-qa='discovery-media-list'] a[href*='/m/']")
SecondaryLinks(d) == SelectSeq(d, LAMBDA a : a.in_list)

MovieLinks(d, secondary) == IF secondary THEN SecondaryLinks(d) ELSE PrimaryLinks(d)

DictKeys(dict) == {dict[k].key : k \in 1..Len(dict)}

DictValues(dict) == [k \in 1..Len(dict) |-> dict[k].value]

\* an insertion that puts a new key in front
DictSetFront(dict, key, value) == <<[key |-> key, value |-> value]>> \o dict

\* dict[key] = value, insertion order kept
DictSet(dict, key, value) ==
    IF key \in DictKeys(dict)
    THEN [k \in 1..Len(dict) |-> IF dict[k].key = key THEN [key |-> key, value |-> value]
                                                  ELSE dict[k]]
    ELSE Append(dict, [key |-> key, value |-> value])

\* existing_titles
ExistingTitles(dict) == {normalize_title(dict[k].value.title) : k \in 1..Len(dict)}

\* the title test of the dedup step
TitleNeverSeen(dict, normalized_title) == FALSE

TitleSeen(dict, normalized_title) == normalized_title \in ExistingTitles(dict)

\* the dedup step and the insertion
AcceptNormalized(dict, title, normalized_url, normalized_title) ==
    IF normalized_url = <<>> \/ normalized_title = <<>> THEN dict
    ELSE IF normalized_url \in DictKeys(dict) THEN dict
    ELSE IF TitleSeen(dict, normalized_title) THEN dict
    ELSE DictSet(dict, normalized_url, [title |-> title, url |-> normalized_url])

\* the deny-list test and the href read, title already stripped
AcceptTitled(dict, title, href_read) ==
    IF lower(title) \in DenyList THEN dict
    ELSE IF href_read = ReadError THEN dict
    ELSE IF href_read = AttrNone \/ href_read = <<>> THEN dict
    ELSE AcceptNormalized(dict, title, normalize_url(href_read), normalize_title(title))

\* the body of the candidate loop for one link: the dictionary afterwards
ProcessLink(dict, link, title_read, href_read) ==
    IF ~link.has_span THEN dict
    ELSE IF title_read = ReadError THEN dict
    ELSE IF title_read = <<>> \/ strip(title_read) = <<>> THEN dict
    ELSE AcceptTitled(dict, strip(title_read), href_read)

\* does the round of this link end in its except clause: inner_text() raises,
\* or get_attribute("href") raises once the title has passed its tests
LinkRaises(link, title_read, href_read) ==
    /\ link.has_span
    /\ \/ title_read = ReadError
       \/ /\ strip(title_read) # <<>>
          /\ lower(strip(title_read)) \notin DenyList
          /\ href_read = ReadError

CandidateOf(normalized_url, normalized_title) ==
    IF normalized_url = <<>> \/ normalized_title = <<>> THEN NoValue
    ELSE [url |-> normalized_url, title |-> normalized_title]

\* what a candidate link offers, from its title text (the text of its
\* span.p--small when it has one) and its href: its normalised URL and title
\* when the title is not blank and not deny-listed, the href is present and
\* both normalised values are non-empty; NoValue otherwise
Candidate(title_read, href_read) ==
    IF title_read = ReadError \/ strip(title_read) = <<>> THEN NoValue
    ELSE IF lower(strip(title_read)) \in DenyList THEN NoValue
    ELSE IF href_read \in {ReadError, AttrNone, <<>>} THEN NoValue
    ELSE CandidateOf(normalize_url(href_read), normalize_title(strip(title_read)))

InitList ==
    /\ lpc = "open" /\ page_idx = 1 /\ dom = <<>> /\ use_secondary = FALSE /\ count = 0
    /\ li = 0 /\ movies_dict = <<>> /\ page_handle = "none" /\ unique_movies = <<>>
    /\ visited = <<>> /\ last_load = "none" /\ offered = FALSE /\ link_error = FALSE
    /\ NormIdle /\ BatchIdle /\ DetailIdle

\* page = await context.new_page()
OpenPage ==
    /\ lpc = "open" /\ page_idx <= Len(PAGES)
    /\ page_handle' = "open"
    /\ visited' = Append(visited, PAGES[page_idx])
    /\ lpc' = "goto"
    /\ UNCHANGED <<page_idx, dom, use_secondary, count, li, movies_dict, unique_movies,
                   last_load, offered, link_error, notList>>

\* page.goto succeeds and the links are located and counted
PageLoads(d) ==
    /\ lpc = "goto"
    /\ dom' = d
    /\ use_secondary' = (Len(PrimaryLinks(d)) = 0)
    /\ count' = Len(MovieLinks(d, Len(PrimaryLinks(d)) = 0))
    /\ li' = 0
    /\ last_load' = "ok"
    /\ lpc' = "links"
    /\ UNCHANGED <<page_idx, movies_dict, page_handle, unique_movies, visited, offered,
                   link_error, notList>>

\* page.goto raises and the iteration is left without its finally clause
PageLoadFailsNoFinally ==
    /\ lpc = "goto"
    /\ last_load' = "failed"
    /\ page_idx' = page_idx + 1
    /\ lpc' = "open"
    /\ UNCHANGED <<dom, use_secondary, count, li, movies_dict, page_handle, unique_movies,
                   visited, offered, link_error, notList>>

\* page.goto (or locating the links) raises: the except branch of the page
PageLoadFails ==
    /\ lpc = "goto"
    /\ last_load' = "failed"
    /\ lpc' = "finally"
    /\ UNCHANGED <<page_idx, dom, use_secondary, count, li, movies_dict, page_handle,
                   unique_movies, visited, offered, link_error, notList>>

\* one round of "for i in range(count)" in which a read that raises leaves
\* the candidate loop and reaches the except clause of the page
ProcessCandidateUncaught(title_read, href_read) ==
    /\ lpc = "links" /\ li < count
    /\ movies_dict' = ProcessLink(movies_dict, MovieLinks(dom, use_secondary)[li + 1],
                                  title_read, href_read)
    /\ offered' = (Candidate(title_read, href_read) # NoValue)
    /\ link_error' = LinkRaises(MovieLinks(dom, use_secondary)[li + 1], title_read, href_read)
    /\ li' = li + 1
    /\ lpc' = IF link_error' THEN "finally" ELSE "links"
    /\ UNCHANGED <<page_idx, dom, use_secondary, count, page_handle, unique_movies,
                   visited, last_load, notList>>

\* one round of "for i in range(count)", the except clause of the candidate
\* included: it logs and continues with the next link
ProcessCandidate(title_read, href_read) ==
    /\ lpc = "links" /\ li < count
    /\ movies_dict' = ProcessLink(movies_dict, MovieLinks(dom, use_secondary)[li + 1],
                                  title_read, href_read)
    /\ offered' = (Candidate(title_read, href_read) # NoValue)
    /\ link_error' = LinkRaises(MovieLinks(dom, use_secondary)[li + 1], title_read, href_read)
    /\ li' = li + 1
    /\ UNCHANGED <<lpc, page_idx, dom, use_secondary, count, page_handle, unique_movies,
                   visited, last_load, notList>>

\* the candidate loop is exhausted
LinksDone ==
    /\ lpc = "links" /\ li = count
    /\ offered' = FALSE
    /\ link_error' = FALSE
    /\ lpc' = "finally"
    /\ UNCHANGED <<page_idx, dom, use_secondary, count, li, movies_dict, page_handle,
                   unique_movies, visited, last_load, notList>>

\* finally: await page.close(); the page loop moves on
ClosePage ==
    /\ lpc = "finally"
    /\ page_handle' = "closed"
    /\ page_idx' = page_idx + 1
    /\ last_load' = "none"
    /\ lpc' = "open"
    /\ UNCHANGED <<dom, use_secondary, count, li, movies_dict, unique_movies, visited, offered,
                   link_error, notList>>

\* unique_movies = list(movies_dict.values()); return unique_movies
ReturnList ==
    /\ lpc = "open" /\ page_idx > Len(PAGES)
    /\ unique_movies' = DictValues(movies_dict)
    /\ lpc' = "done"
    /\ UNCHANGED <<page_idx, dom, use_secondary, count, li, movies_dict, page_handle,
                   lghost, notList>>

NextList ==
    \/ OpenPage
    \/ \E d \in SeqsUpTo(Anchors, MaxLinks) : PageLoads(d)
    \/ PageLoadFails
    \/ \E t \in TitleTexts \cup {<<>>, ReadError} :
           \E h \in Hrefs \cup {AttrNone, ReadError} : ProcessCandidate(t, h)
    \/ LinksDone
    \/ ClosePage
    \/ ReturnList

SpecList == InitList /\ [][NextList]_vars

(* -------------------- scrape_movie_metadata_efficient ------------------- *)
MaxRuntimeLen == 3

MaxRtTexts == 3

Digits == {"0", "1", "2", "3", "4", "5", "6", "7", "8", "9"}

DigitValue(c) ==
    CASE c = "0" -> 0 [] c = "1" -> 1 [] c = "2" -> 2 [] c = "3" -> 3 [] c = "4" -> 4
      [] c = "5" -> 5 [] c = "6" -> 6 [] c = "7" -> 7 [] c = "8" -> 8 [] c = "9" -> 9

DigitChar(d) == <<"0", "1", "2", "3", "4", "5", "6", "7", "8", "9">>[d + 1]

\* int(s) for a string of digits
RECURSIVE IntOf(_)
IntOf(s) == IF s = <<>> THEN 0 ELSE 10 * IntOf(SubSeq(s, 1, Len(s) - 1)) + DigitValue(s[Len(s)])

\* f"{n}" for n >= 0
RECURSIVE DecStr(_)
DecStr(n) == IF n < 10 THEN <<DigitChar(n)>> ELSE Append(DecStr(n \div 10), DigitChar(n % 10))

\* the run of digits starting at position k, at most max long
RECURSIVE DigitRun(_, _, _)
DigitRun(s, k, max) ==
    IF max = 0 \/ k > Len(s) \/ s[k] \notin Digits THEN <<>>
    ELSE <<s[k]>> \o DigitRun(s, k + 1, max - 1)

\* re.search(r'(\d{1,3})', s).group(1), None when there is no match
SearchDigits3(s) ==
    LET k == FindFrom(s, Digits, 1) IN IF k = 0 THEN None ELSE DigitRun(s, k, 3)

\* re.search(r'(\d+)', s).group(1), None when there is no match
SearchDigits(s) ==
    LET k == FindFrom(s, Digits, 1) IN IF k = 0 THEN None ELSE DigitRun(s, k, Len(s))

\* re.search(r'^(\d{1,3})%?$', s).group(1), None when there is no match
MatchScoreText(s) ==
    LET run == DigitRun(s, 1, 3)
    IN  IF run # <<>> /\ (s = run \/ s = Append(run, "%")) THEN run ELSE None

\* texts a score element can hold
ScoreTexts ==
    {<<"0">>, <<"8", "5", "%">>, <<"1", "0", "0">>, <<"1", "5", "0">>, <<"x", "9">>, <<>>}

\* the element is not in the document
Absent == <<"<absent>">>

RuntimeAlphabet == {"5", "9", " ", "h"}

\* values[0] of the runtime row: stripped and not empty
RawRuntimes ==
    {r \in SeqsUpTo(RuntimeAlphabet, MaxRuntimeLen) : r # <<>> /\ strip(r) = r}

\* tier 1, one score: the text read from the element gives the new field value
Tier1Score(current, read) ==
    IF read = ReadError \/ read = <<>> THEN current
    ELSE LET m == SearchDigits3(strip(read))
         IN  IF m = None THEN current
             ELSE IF 0 <= IntOf(m) /\ IntOf(m) <= 100 THEN <<IntOf(m)>> ELSE current

\* tier 2, the script: the entry of scores for one element (None when missing)
ScriptScore(text) ==
    IF text = Absent THEN None
    ELSE LET m == SearchDigits3(strip(text))
         IN  IF m = None THEN None ELSE <<IntOf(m)>>

\* tier 2, one score, without the "is None" test
Tier2ScoreOverwrites(current, script_score) ==
    IF script_score # None /\ script_score # <<0>> THEN script_score ELSE current

\* tier 2, one score: "if scores.get(k) and metadata[f] is None"
Tier2Score(current, script_score) ==
    IF script_score # None /\ script_score # <<0>> /\ current = None
    THEN script_score ELSE current

\* potential_scores without the range test
RECURSIVE PotentialScoresAnyValue(_)
PotentialScoresAnyValue(texts) ==
    IF texts = <<>> THEN <<>>
    ELSE LET text == texts[1]
             m    == IF text = <<>> THEN None ELSE MatchScoreText(strip(text))
             rest == PotentialScoresAnyValue(Tail(texts))
         IN  IF m # None THEN <<IntOf(m)>> \o rest ELSE rest

\* tier 3: potential_scores in document order
RECURSIVE PotentialScores(_)
PotentialScores(texts) ==
    IF texts = <<>> THEN <<>>
    ELSE LET text == texts[1]
             m    == IF text = <<>> THEN None ELSE MatchScoreText(strip(text))
             rest == PotentialScores(Tail(texts))
         IN  IF m # None /\ 0 <= IntOf(m) /\ IntOf(m) <= 100
             THEN <<IntOf(m)>> \o rest ELSE rest

Max(a, b) == IF a > b THEN a ELSE b

\* tier 3 without the sort: the two scores in document order
Tier3ScoresUnsorted(md, texts) ==
    LET ps == PotentialScores(texts)
    IN  IF Len(ps) = 2
        THEN [md EXCEPT
                !.tomatometer_score = IF @ = None THEN <<ps[1]>> ELSE @,
                !.audience_score = IF @ = None THEN <<ps[2]>> ELSE @]
        ELSE md

\* tier 3: the metadata after the generic scan
Tier3Scores(md, texts) ==
    LET ps == PotentialScores(texts)
    IN  IF Len(ps) = 2
        THEN [md EXCEPT
                !.tomatometer_score = IF @ = None THEN <<Max(ps[1], ps[2])>> ELSE @,
                !.audience_score = IF @ = None THEN <<Min(ps[1], ps[2])>> ELSE @]
        ELSE md

\* str.replace(' ', '')
RemoveSpaces(s) == SelectSeq(s, LAMBDA c : c # " ")

\* the sanitation loop over the two score fields
SanitizeNothing(md) == md

SanitizeScores(md) ==
    LET clean(score) == IF score # None /\ ~(0 <= score[1] /\ score[1] <= 100)
                        THEN None ELSE score
    IN  [md EXCEPT !.tomatometer_score = clean(@), !.audience_score = clean(@)]

\* the two f-strings of the duration step
FormatMinutesFlat(minutes) == DecStr(minutes) \o <<"m">>

FormatMinutes(minutes) ==
    IF minutes >= 60
    THEN DecStr(minutes \div 60) \o <<"h", " ">> \o DecStr(minutes % 60) \o <<"m">>
    ELSE DecStr(minutes) \o <<"m">>

\* the duration step
ReformatDuration(md) ==
    IF md.duration = None THEN md
    ELSE IF Contains(lower(md.duration), "h") \/ Contains(lower(md.duration), "m") THEN md
    ELSE LET m == SearchDigits(md.duration)
         IN  IF m = None THEN md ELSE [md EXCEPT !.duration = FormatMinutes(IntOf(m))]

ScoreUnset(md) == md.tomatometer_score = None \/ md.audience_score = None

Snapshot(md) == [tomatometer_score |-> md.tomatometer_score,
                 audience_score |-> md.audience_score]

InitDetail ==
    /\ dpc = "launch" /\ d_url = "u" /\ d_title = "t" /\ metadata = NoValue
    /\ browser = "none" /\ close_calls = 0 /\ d_result = NoValue /\ raw_runtime = Unset
    /\ tier_snaps = <<>> /\ nav_failed = FALSE /\ scores = NoValue /\ rt_texts = NoTexts
    /\ NormIdle /\ BatchIdle /\ ListIdle

\* browser = await p.chromium.launch(...)
Launch ==
    /\ dpc = "launch"
    /\ browser' = "launched"
    /\ dpc' = "new_page"
    /\ UNCHANGED <<d_url, d_title, metadata, close_calls, d_result, raw_runtime,
                   tier_snaps, dlocals, notDetail>>

\* the launch raises: nothing was opened, the error leaves the function
LaunchRaises ==
    /\ dpc = "launch"
    /\ dpc' = "raised"
    /\ UNCHANGED <<d_url, d_title, metadata, browser, close_calls, d_result, raw_runtime,
                   tier_snaps, dlocals, notDetail>>

\* page = await browser.new_page()
NewPage ==
    /\ dpc = "new_page"
    /\ dpc' = "goto"
    /\ UNCHANGED <<d_url, d_title, metadata, browser, close_calls, d_result, raw_runtime,
                   tier_snaps, dlocals, notDetail>>

\* new_page raises: the call stands before the try, the error leaves the function
NewPageRaises ==
    /\ dpc = "new_page"
    /\ dpc' = "raised"
    /\ UNCHANGED <<d_url, d_title, metadata, browser, close_calls, d_result, raw_runtime,
                   tier_snaps, dlocals, notDetail>>

\* set_viewport_size and goto succeed; metadata is created
Goto ==
    /\ dpc = "goto"
    /\ metadata' = FullRecord(d_url, d_title)
    /\ dpc' = "tier1_critics"
    /\ UNCHANGED <<d_url, d_title, browser, close_calls, d_result, raw_runtime,
                   tier_snaps, dlocals, notDetail>>

\* set_viewport_size or goto raises and nothing catches it
GotoRaisesUncaught ==
    /\ dpc = "goto"
    /\ nav_failed' = TRUE
    /\ dpc' = "raised"
    /\ UNCHANGED <<d_url, d_title, metadata, browser, close_calls, d_result, raw_runtime,
                   tier_snaps, scores, rt_texts, notDetail>>

\* set_viewport_size or goto raises: the outer except branch
GotoRaises ==
    /\ dpc = "goto"
    /\ nav_failed' = TRUE
    /\ dpc' = "except"
    /\ UNCHANGED <<d_url, d_title, metadata, browser, close_calls, d_result, raw_runtime,
                   tier_snaps, scores, rt_texts, notDetail>>

\* tier 1, critic score
Tier1Critics(read) ==
    /\ dpc = "tier1_critics"
    /\ metadata' = [metadata EXCEPT !.tomatometer_score = Tier1Score(@, read)]
    /\ dpc' = "tier1_audience"
    /\ UNCHANGED <<d_url, d_title, browser, close_calls, d_result, raw_runtime,
                   tier_snaps, dlocals, notDetail>>

\* tier 1, audience score
Tier1Audience(read) ==
    /\ dpc = "tier1_audience"
    /\ metadata' = [metadata EXCEPT !.audience_score = Tier1Score(@, read)]
    /\ tier_snaps' = Append(tier_snaps, Snapshot(metadata'))
    /\ dpc' = "tier2"
    /\ UNCHANGED <<d_url, d_title, browser, close_calls, d_result, raw_runtime, dlocals, notDetail>>

\* tier 2: page.evaluate returns the scores object
Tier2(critics_text, audience_text) ==
    /\ dpc = "tier2" /\ ScoreUnset(metadata)
    /\ scores' = [tomatometer |-> ScriptScore(critics_text),
                  audience |-> ScriptScore(audience_text)]
    /\ metadata' = [metadata EXCEPT
                      !.tomatometer_score = Tier2Score(@, scores'.tomatometer),
                      !.audience_score = Tier2Score(@, scores'.audience)]
    /\ tier_snaps' = Append(tier_snaps, Snapshot(metadata'))
    /\ dpc' = "tier3"
    /\ UNCHANGED <<d_url, d_title, browser, close_calls, d_result, raw_runtime,
                   nav_failed, rt_texts, notDetail>>

\* tier 2 is not entered, or page.evaluate raises
Tier2Skipped ==
    /\ dpc = "tier2"
    /\ tier_snaps' = Append(tier_snaps, Snapshot(metadata))
    /\ dpc' = "tier3"
    /\ UNCHANGED <<d_url, d_title, metadata, browser, close_calls, d_result, raw_runtime,
                   dlocals, notDetail>>

\* tier 3: the generic scan over all rt-text elements
Tier3(texts) ==
    /\ dpc = "tier3" /\ ScoreUnset(metadata)
    /\ rt_texts' = texts
    /\ scores' = NoValue
    /\ metadata' = Tier3Scores(metadata, texts)
    /\ tier_snaps' = Append(tier_snaps, Snapshot(metadata'))
    /\ dpc' = "info"
    /\ UNCHANGED <<d_url, d_title, browser, close_calls, d_result, raw_runtime,
                   nav_failed, notDetail>>

\* tier 3 is not entered, or query_selector_all raises
Tier3Skipped ==
    /\ dpc = "tier3"
    /\ scores' = NoValue
    /\ tier_snaps' = Append(tier_snaps, Snapshot(metadata))
    /\ dpc' = "info"
    /\ UNCHANGED <<d_url, d_title, metadata, browser, close_calls, d_result, raw_runtime,
                   nav_failed, rt_texts, notDetail>>

\* info_section = page.locator('section.media-info'): control enters the
\* field extraction
LocateInfo ==
    /\ dpc = "info"
    /\ rt_texts' = NoTexts
    /\ dpc' = "fields"
    /\ UNCHANGED <<d_url, d_title, metadata, browser, close_calls, d_result, raw_runtime,
                   tier_snaps, nav_failed, scores, notDetail>>

\* the info panel holds a runtime row whose first value is raw
FieldsWithRuntime(raw) ==
    /\ dpc = "fields"
    /\ raw_runtime' = raw
    /\ metadata' = [metadata EXCEPT !.duration = RemoveSpaces(raw)]
    /\ dpc' = "post"
    /\ UNCHANGED <<d_url, d_title, browser, close_calls, d_result, tier_snaps, dlocals,
                   notDetail>>

\* no info panel, no runtime row, or the row's read raises
FieldsWithoutRuntime ==
    /\ dpc = "fields"
    /\ dpc' = "post"
    /\ UNCHANGED <<d_url, d_title, metadata, browser, close_calls, d_result, raw_runtime,
                   tier_snaps, dlocals, notDetail>>

\* the sanitation pass and the duration step
PostProcess ==
    /\ dpc = "post"
    /\ metadata' = ReformatDuration(SanitizeScores(metadata))
    /\ dpc' = "close"
    /\ UNCHANGED <<d_url, d_title, browser, close_calls, d_result, raw_runtime,
                   tier_snaps, dlocals, notDetail>>

\* await browser.close(); return metadata
CloseAndReturn ==
    /\ dpc = "close"
    /\ close_calls' = close_calls + 1
    /\ d_result' = metadata
    /\ dpc' = "returned"
    /\ UNCHANGED <<d_url, d_title, metadata, browser, raw_runtime, tier_snaps, dlocals, notDetail>>

\* browser.close() on the normal path raises: the outer except branch
CloseRaises ==
    /\ dpc = "close"
    /\ close_calls' = close_calls + 1
    /\ dpc' = "except"
    /\ UNCHANGED <<d_url, d_title, metadata, browser, d_result, raw_runtime, tier_snaps,
                   dlocals, notDetail>>

\* except: await browser.close(); return the failure record
ExceptCloseAndReturn ==
    /\ dpc = "except"
    /\ close_calls' = close_calls + 1
    /\ d_result' = FailureRecord(d_url, d_title, "error text")
    /\ dpc' = "returned"
    /\ UNCHANGED <<d_url, d_title, metadata, browser, raw_runtime, tier_snaps, dlocals, notDetail>>

\* browser.close() inside the except branch raises: the error leaves the function
ExceptCloseRaises ==
    /\ dpc = "except"
    /\ close_calls' = close_calls + 1
    /\ dpc' = "raised"
    /\ UNCHANGED <<d_url, d_title, metadata, browser, d_result, raw_runtime, tier_snaps,
                   dlocals, notDetail>>

NextDetail ==
    \/ Launch \/ LaunchRaises
    \/ NewPage \/ NewPageRaises
    \/ Goto \/ GotoRaises
    \/ \E read \in ScoreTexts \cup {ReadError} : Tier1Critics(read)
    \/ \E read \in ScoreTexts \cup {ReadError} : Tier1Audience(read)
    \/ \E c, a \in ScoreTexts \cup {Absent} : Tier2(c, a)
    \/ Tier2Skipped
    \/ \E texts \in SeqsUpTo(ScoreTexts, MaxRtTexts) : Tier3(texts)
    \/ Tier3Skipped
    \/ LocateInfo
    \/ \E raw \in RawRuntimes : FieldsWithRuntime(raw)
    \/ FieldsWithoutRuntime
    \/ PostProcess
    \/ CloseAndReturn \/ CloseRaises
    \/ ExceptCloseAndReturn \/ ExceptCloseRaises

SpecDetail == InitDetail /\ [][NextDetail]_vars

(* ------------------------------ C1 ------------------------------------- *)
\* C1: when scrape_all_movies_batch returns, the returned list has exactly
\* one outcome per input entry, whatever each extraction did (full record,
\* failure record, raised exception).
C1_OnePerEntry == bpc = "done" => Len(all_results) = Len(movies)

C1_Witness ==
    /\ bpc = "done" /\ NumTasks > chunk_size
    /\ \E t, u \in 1..NumTasks : extraction[t] = "raise" /\ extraction[u] = "failrec"
    /\ \E t \in 1..NumTasks : extraction[t] = "record"

(* ------------------------------ C2 ------------------------------------- *)
Raisers == {t \in 1..NumTasks : extraction[t] = "raise"}

\* positions of the returned list that hold no record returned by an extraction
CoordinatorFailures ==
    {p \in 1..Len(all_results) : \A t \in 1..NumTasks : all_results[p] # returned[t]}

\* C2: when exactly one extraction raised, the run still returns one outcome
\* per entry; exactly one of them is a failure outcome made by the
\* coordinator, it carries the url and title of the failing entry, and every
\* other entry's outcome is the record its own extraction returned.
C2_FaultIsolation ==
    (bpc = "done" /\ Cardinality(Raisers) = 1) =>
        LET r == CHOOSE t \in Raisers : TRUE
        IN  /\ Len(all_results) = NumTasks
            /\ Cardinality(CoordinatorFailures) = 1
            /\ \A p \in CoordinatorFailures :
                   /\ DOMAIN all_results[p] = {"url", "title", "error"}
                   /\ all_results[p].url = movies[r].url
                   /\ all_results[p].title = movies[r].title
            /\ \A t \in (1..NumTasks) \ {r} :
                   \E p \in 1..Len(all_results) : all_results[p] = returned[t]

C2_Witness ==
    /\ bpc = "done" /\ Cardinality(Raisers) = 1 /\ NumTasks > chunk_size
    /\ \E t \in 1..NumTasks : extraction[t] = "failrec"

(* ------------------------------ C3 ------------------------------------- *)
\* C3: at every moment the number of extractions that have entered
\* scrape_movie_metadata_efficient and have not settled is at most
\* max_concurrent.
C3_BoundedConcurrency == Cardinality(InFlight) <= max_concurrent

C3_Witness ==
    /\ max_concurrent >= 2 /\ Cardinality(InFlight) = max_concurrent
    /\ \E t \in 1..NumTasks : status[t] = "waiting"
    /\ \E t \in 1..NumTasks : status[t] = "settled"

(* ------------------------------ C4 ------------------------------------- *)
\* 0-based number of the chunk task t belongs to
ChunkNo(t) == (t - 1) \div chunk_size

Started(t) == status[t] \in {"inflight", "settled"}

\* C4: an extraction of a later chunk has started only if every extraction of
\* every earlier chunk has settled and the pacing pause after each earlier
\* chunk has elapsed, although all tasks exist from the start.
C4_ChunkBarrier ==
    \A t \in 1..NumTasks : Started(t) =>
        /\ \A u \in 1..NumTasks : ChunkNo(u) < ChunkNo(t) => status[u] = "settled"
        /\ sleeps >= ChunkNo(t)

C4_Witness ==
    \E t \in 1..NumTasks : ChunkNo(t) = 1 /\ status[t] = "inflight" /\ sleeps = 1

(* ------------------------------ C5 ------------------------------------- *)
\* the entries accepted so far, and at return the entries returned
Accepted == IF lpc = "done" THEN unique_movies ELSE DictValues(movies_dict)

\* C5: at every point of the crawl, and in the returned list, no two accepted
\* entries have the same normalized URL and no two have the same normalized
\* title.
C5_Dedup ==
    \A j, k \in 1..Len(Accepted) : j # k =>
        /\ Accepted[j].url # Accepted[k].url
        /\ normalize_title(Accepted[j].title) # normalize_title(Accepted[k].title)

C5_Witness ==
    /\ lpc = "done" /\ Len(unique_movies) = 2
    /\ unique_movies[1].title = <<"a", "!">> /\ unique_movies[2].title = <<"B">>

(* ------------------------------ C6 ------------------------------------- *)
\* r.get(field)
FieldOf(r, field) == IF field \in DOMAIN r THEN r[field] ELSE None

ScoreInRange(score) == score = None \/ (0 <= score[1] /\ score[1] <= 100)

\* C6: in every dictionary scrape_movie_metadata_efficient returns,
\* tomatometer_score and audience_score are each null or an integer between
\* 0 and 100, whatever the three tiers produced.
C6_ScoreRange ==
    dpc = "returned" =>
        /\ ScoreInRange(FieldOf(d_result, "tomatometer_score"))
        /\ ScoreInRange(FieldOf(d_result, "audience_score"))

C6_Witness ==
    /\ dpc = "returned" /\ Len(tier_snaps) = 3
    /\ tier_snaps[3].tomatometer_score = <<150>>
    /\ FieldOf(d_result, "tomatometer_score") = None
    /\ FieldOf(d_result, "audience_score") = <<85>>

(* ------------------------------ C7 ------------------------------------- *)
\* C7: whenever scrape_movie_metadata_efficient has returned or raised after
\* launching the browser (also when opening the page handle or a close
\* raised), browser.close() has been performed.
C7_BrowserClosed ==
    (dpc \in {"returned", "raised"} /\ browser = "launched") => close_calls >= 1

(* ------------------------------ C10 ------------------------------------ *)
AllDigits(s) == s # <<>> /\ \A k \in 1..Len(s) : s[k] \in Digits

\* the minutes a formatted duration stands for, from its "h" and "m" parts
DurationMinutes(d) ==
    LET h == FindFrom(d, {"h"}, 1)
    IN  IF h = 0 THEN IntOf(SubSeq(d, 1, Len(d) - 1))
        ELSE 60 * IntOf(SubSeq(d, 1, h - 1)) + IntOf(SubSeq(d, h + 2, Len(d) - 1))

\* C10: when the raw runtime value is a plain integer minute count n, the
\* returned record's duration is "{n}m" for n < 60 and "{h}h {m}m" with
\* h = n div 60 and m = n mod 60 otherwise; its parts add up to n and the
\* minute part is below 60.
C10_DurationFormat ==
    (dpc = "returned" /\ AllDigits(raw_runtime) /\ "duration" \in DOMAIN d_result) =>
        LET n == IntOf(raw_runtime)
            d == d_result.duration
            h == FindFrom(d, {"h"}, 1)
        IN  /\ d[Len(d)] = "m"
            /\ (n < 60) <=> (h = 0)
            /\ n < 60 => d = DecStr(n) \o <<"m">>
            /\ n >= 60 => /\ SubSeq(d, 1, h + 1) = DecStr(n \div 60) \o <<"h", " ">>
                          /\ SubSeq(d, h + 2, Len(d)) = DecStr(n % 60) \o <<"m">>
                          /\ IntOf(SubSeq(d, h + 2, Len(d) - 1)) < 60
            /\ DurationMinutes(d) = n

C10_Witness ==
    /\ dpc = "returned" /\ raw_runtime = <<"9", "5">>
    /\ FieldOf(d_result, "duration") = <<"1", "h", " ", "3", "5", "m">>

(* ------------------------------ C11 ------------------------------------ *)
HasUnitLetter(s) == Contains(lower(s), "h") \/ Contains(lower(s), "m")

\* C11: when the raw runtime value read from the info panel already carries
\* a unit letter, the duration of the returned record is the same sequence
\* of characters as the raw value.
C11_PassThrough ==
    (dpc = "returned" /\ raw_runtime # Unset /\ HasUnitLetter(raw_runtime)
         /\ "duration" \in DOMAIN d_result) =>
        d_result.duration = raw_runtime

(* ------------------------------ C12 ------------------------------------ *)
\* C12: once loading the detail page has failed, control is in the except
\* branch or behind it and no score or field extraction step has been
\* performed; the navigation error does not reach the caller (the call can
\* end in an error only when the except branch's own browser.close()
\* raises), and the record the call returns holds url, title and a set error
\* and nothing else.
C12_NavigationFailure ==
    nav_failed =>
        /\ dpc \in {"except", "returned", "raised"}
        /\ metadata = NoValue /\ tier_snaps = <<>> /\ raw_runtime = Unset
        /\ scores = NoValue /\ rt_texts = NoTexts
        /\ dpc = "raised" => close_calls = 1
        /\ dpc = "returned" =>
               /\ DOMAIN d_result = {"url", "title", "error"}
               /\ d_result.url = d_url /\ d_result.title = d_title
               /\ d_result.error # ""

C12_Witness ==
    /\ nav_failed /\ dpc = "returned" /\ close_calls = 1
    /\ d_result = FailureRecord(d_url, d_title, "error text")

(* ------------------------------ C13 ------------------------------------ *)
\* the pages opened so far are the first page numbers of PAGES, in order
VisitedInOrder ==
    /\ Len(visited) = (IF lpc \in {"open", "done"} THEN page_idx - 1 ELSE page_idx)
    /\ Len(visited) <= Len(PAGES)
    /\ visited = SubSeq(PAGES, 1, Len(visited))

\* C13: when loading a listing page fails, the failing step leaves the
\* accepted entries as they are and goes straight to the finally clause, so
\* no candidate of that page is processed; the step after it closes the
\* page handle, again leaves the accepted entries alone and moves to the
\* next page index; and every page number of PAGES has been visited, in
\* order, when the function returns.
C13_PageFaultIsolation ==
    /\ [][(last_load' = "failed" /\ last_load # "failed") =>
              (movies_dict' = movies_dict /\ lpc' = "finally" /\ li' = li)]_vars
    /\ [][last_load = "failed" =>
              /\ movies_dict' = movies_dict /\ li' = li
              /\ page_handle' = "closed"
              /\ page_idx' = page_idx + 1 /\ lpc' = "open"]_vars
    /\ [](VisitedInOrder /\ (lpc = "done" => visited = PAGES))

C13_Witness ==
    /\ last_load = "failed" /\ lpc = "finally" /\ page_idx = 2
    /\ visited = <<0, 1>> /\ Len(movies_dict) = 1

(* ------------------------------ C14 ------------------------------------ *)
\* the element's trimmed text is a number of one to three digits with an
\* optional "%"
HasScoreShape(text) == text # <<>> /\ MatchScoreText(strip(text)) # None

ShapeCandidates(texts) == SelectSeq(texts, HasScoreShape)

InRangeShape(text) ==
    HasScoreShape(text) /\ IntOf(MatchScoreText(strip(text))) \in 0..100

RangeCandidates(texts) == SelectSeq(texts, InRangeShape)

\* control is just behind a tier 3 that ran its scan
Tier3Ran == dpc = "info" /\ rt_texts # NoTexts

Tier3Assigned == tier_snaps[3] # tier_snaps[2]

\* C14 as stated: tier 3 assigns a score only when exactly two elements have
\* a text of the score shape, whatever the numbers are; with any other
\* number of such elements it assigns nothing.
C14_TwoOfAnyValue ==
    Tier3Ran => (Tier3Assigned => Len(ShapeCandidates(rt_texts)) = 2)

\* C14 amended: the candidates are the elements with a text of the score
\* shape whose number lies in [0, 100]; tier 3 assigns a score exactly when
\* there are two of them, and with any other number of them it leaves both
\* scores as they were.
C14_TwoInRange ==
    Tier3Ran => (Tier3Assigned <=> Len(RangeCandidates(rt_texts)) = 2)

C14_Witness ==
    /\ Tier3Ran
    /\ rt_texts = <<<<"1", "5", "0">>, <<"8", "5", "%">>, <<"1", "0", "0">>>>
    /\ tier_snaps[2] = [tomatometer_score |-> None, audience_score |-> None]
    /\ tier_snaps[3] = [tomatometer_score |-> <<100>>, audience_score |-> <<85>>]

(* ------------------------------ C15 ------------------------------------ *)
\* control is just behind a tier 2 whose script returned its scores object
Tier2Ran == dpc = "tier3" /\ scores # NoValue

\* what tier 1's rule makes of a number the script found: accepted in [0, 100]
AcceptInRange(found) ==
    IF found # None /\ found[1] \in 0..100 THEN found ELSE None

\* C15: for a score still unset after tier 1, tier 2 assigns the first run of
\* one to three digits of the element's text if and only if its value is in
\* [0, 100], and leaves the score unset otherwise.
C15_Tier2LikeTier1 ==
    Tier2Ran =>
        /\ tier_snaps[1].tomatometer_score = None =>
               tier_snaps[2].tomatometer_score = AcceptInRange(scores.tomatometer)
        /\ tier_snaps[1].audience_score = None =>
               tier_snaps[2].audience_score = AcceptInRange(scores.audience)

(* ------------------------------ C16 ------------------------------------ *)
\* a score that is set in snapshot before is the same in snapshot after
KeepsSetScores(before, after) ==
    /\ before.tomatometer_score # None =>
           after.tomatometer_score = before.tomatometer_score
    /\ before.audience_score # None => after.audience_score = before.audience_score

\* C16: a score that is set after tier 1 is the same after tier 2 and after
\* tier 3, a score that is set after tier 2 is the same after tier 3, and
\* tier 2 and tier 3 run their extraction only when at least one score was
\* still unset when control reached them.
C16_ShortCircuit ==
    /\ Len(tier_snaps) >= 2 => KeepsSetScores(tier_snaps[1], tier_snaps[2])
    /\ Len(tier_snaps) >= 3 =>
           /\ KeepsSetScores(tier_snaps[2], tier_snaps[3])
           /\ KeepsSetScores(tier_snaps[1], tier_snaps[3])
    /\ Tier2Ran => ScoreUnset(tier_snaps[1])
    /\ Tier3Ran => ScoreUnset(tier_snaps[2])

C16_Witness ==
    /\ Tier2Ran /\ scores = [tomatometer |-> <<100>>, audience |-> <<100>>]
    /\ tier_snaps[1] = [tomatometer_score |-> <<85>>, audience_score |-> None]
    /\ tier_snaps[2] = [tomatometer_score |-> <<85>>, audience_score |-> <<100>>]

(* ------------------------------ C17 ------------------------------------ *)
CandidateValue(text) == IntOf(MatchScoreText(strip(text)))

LargerCandidate(texts) ==
    LET c == RangeCandidates(texts)
    IN  IF CandidateValue(c[1]) >= CandidateValue(c[2])
        THEN CandidateValue(c[1]) ELSE CandidateValue(c[2])

SmallerCandidate(texts) ==
    LET c == RangeCandidates(texts)
    IN  IF CandidateValue(c[1]) >= CandidateValue(c[2])
        THEN CandidateValue(c[2]) ELSE CandidateValue(c[1])

BothUnset(snap) == snap.tomatometer_score = None /\ snap.audience_score = None

BothSet(snap) == snap.tomatometer_score # None /\ snap.audience_score # None

\* C17: when tier 3 has run over two candidates, a critic score that was
\* unset before it is the larger candidate and an audience score that was
\* unset before it is the smaller one; and a returned record whose two
\* scores were both unset before tier 3 and both set by it has
\* tomatometer_score >= audience_score.
C17_Tier3Direction ==
    /\ (Tier3Ran /\ Len(RangeCandidates(rt_texts)) = 2) =>
           /\ tier_snaps[2].tomatometer_score = None =>
                  tier_snaps[3].tomatometer_score = <<LargerCandidate(rt_texts)>>
           /\ tier_snaps[2].audience_score = None =>
                  tier_snaps[3].audience_score = <<SmallerCandidate(rt_texts)>>
    /\ (dpc = "returned" /\ "tomatometer_score" \in DOMAIN d_result
           /\ BothUnset(tier_snaps[2]) /\ BothSet(tier_snaps[3])) =>
           /\ BothSet(d_result)
           /\ d_result.tomatometer_score[1] >= d_result.audience_score[1]

C17_Witness ==
    /\ Tier3Ran /\ rt_texts = <<<<"0">>, <<"8", "5", "%">>>>
    /\ BothUnset(tier_snaps[2])
    /\ tier_snaps[3] = [tomatometer_score |-> <<85>>, audience_score |-> <<0>>]

(* ------------------------------ C18 ------------------------------------ *)
\* max(0, ceil(n / chunk_size) - 1)
ExpectedPauses(n) ==
    IF n = 0 THEN 0 ELSE ((n + chunk_size - 1) \div chunk_size) - 1

\* C18: the coordinator pauses only behind a chunk that another chunk
\* follows, one pause has been completed per chunk that lies before the
\* running one, and at the return the number of pauses performed over N
\* entries is max(0, ceil(N / 10) - 1), which is 0 for N <= 10.
C18_PacingCount ==
    /\ bpc = "sleep" => chunk_i + chunk_size < NumTasks
    /\ bpc \in {"gather", "sleep"} => sleeps = chunk_i \div chunk_size
    /\ bpc = "done" =>
           /\ sleeps = ExpectedPauses(NumTasks)
           /\ NumTasks <= chunk_size => sleeps = 0

C18_Witness ==
    bpc = "done" /\ NumTasks = 11 /\ sleeps = 1

(* ------------------------------ C19 ------------------------------------ *)
\* the links of the running page come from the secondary selector and the
\* link of the latest loop round offered a title and an href
SecondaryOffered == lpc = "links" /\ use_secondary /\ li >= 1 /\ offered

\* C19: when the primary selector found no link and the secondary selector
\* found one that has a title which is not blank and not deny-listed and an
\* href (both non-empty when normalised), that link is accepted unless it
\* duplicates an accepted entry, so the accepted entries are not empty once
\* the link has been processed.
C19_SecondaryFallback ==
    SecondaryOffered => movies_dict # <<>>

(* ------------------------------ C20 ------------------------------------ *)
IsPrefixOf(a, b) == Len(a) <= Len(b) /\ SubSeq(b, 1, Len(a)) = a

\* the entry a step appended is new by URL and by normalised title
AppendedIsNew(before, after) ==
    LET e == after[Len(after)]
    IN  /\ e.key \notin DictKeys(before)
        /\ normalize_title(e.value.title) \notin ExistingTitles(before)

\* C20: every step leaves the accepted entries where they are and adds at
\* most one entry behind them, and only one that is new by URL and by
\* title, so an accepted entry is never removed, replaced or reordered; the
\* page index only moves to the next one and the candidate index of a page
\* only to the next link; the pages opened are the first page numbers of
\* PAGES in order; and the returned list is the accepted entries in the
\* order of their acceptance.
C20_FirstSeenOrder ==
    /\ [][/\ IsPrefixOf(movies_dict, movies_dict')
          /\ Len(movies_dict') <= Len(movies_dict) + 1
          /\ movies_dict' # movies_dict => AppendedIsNew(movies_dict, movies_dict')]_vars
    /\ [][/\ page_idx' \in {page_idx, page_idx + 1}
          /\ (lpc = "links" /\ li' # li) => li' = li + 1
          /\ lpc' = "links" => li' \in {0, li, li + 1}]_vars
    /\ [](visited = SubSeq(PAGES, 1, Len(visited)))
    /\ [](lpc = "done" => unique_movies = DictValues(movies_dict))

C20_Witness ==
    /\ lpc = "done" /\ Len(unique_movies) = 2
    /\ unique_movies[1].title = <<"B">> /\ unique_movies[2].title = <<"A">>

(* ------------------------------ C21 ------------------------------------ *)
\* a round of the candidate loop can follow: the next link of the page
NextCandidateEnabled ==
    ENABLED (\E t \in TitleTexts \cup {<<>>, ReadError} :
                 \E h \in Hrefs \cup {AttrNone, ReadError} : ProcessCandidate(t, h))

\* C21: a loop round in which reading the title or the href of a candidate
\* raises leaves the accepted entries as they were, moves to the next
\* candidate index and stays in the candidate loop of the same page, which
\* stays open; after it the next link of the page can be processed when
\* there is one, and the loop ends normally (so the page is closed and the
\* page loop moves on) when there is none.
C21_CandidateFaultIsolation ==
    /\ [][link_error' => /\ lpc = "links" /\ lpc' = "links"
                         /\ movies_dict' = movies_dict
                         /\ li' = li + 1
                         /\ page_idx' = page_idx /\ page_handle' = page_handle
                         /\ visited' = visited]_vars
    /\ [](link_error => /\ lpc = "links" /\ 1 <= li /\ li <= count
                        /\ page_handle = "open" /\ ~offered
                        /\ li < count => NextCandidateEnabled
                        /\ li = count => ENABLED LinksDone)

\* on the second page, with an entry accepted before, the read of the first of
\* two candidates has raised
C21_Witness ==
    /\ link_error /\ lpc = "links" /\ page_idx = 2 /\ li = 1 /\ count = 2
    /\ movies_dict # <<>>

(* ------------------------------ C22 ------------------------------------ *)
\* C22: with max_concurrent >= 1 and every started extraction settling, the
\* run eventually returns; at every moment the free slots and the slots held
\* by in-flight extractions add up to max_concurrent; the step in which an
\* extraction settles gives one slot back, whether it returned a record,
\* returned a failure record or raised; and at the return every slot is free,
\* no extraction is in flight and no task is waiting or unstarted.
C22_TerminationAndRelease ==
    /\ <>(bpc = "done")
    /\ [](max_concurrent >= 1 /\ sem_value >= 0
          /\ sem_value + Cardinality(InFlight) = max_concurrent)
    /\ [][\A t \in 1..NumTasks :
              (status[t] = "inflight" /\ status'[t] = "settled") =>
                  /\ sem_value' = sem_value + 1
                  /\ extraction'[t] \in {"record", "failrec", "raise"}]_vars
    /\ [](bpc = "done" => /\ sem_value = max_concurrent
                          /\ InFlight = {}
                          /\ \A t \in 1..NumTasks : status[t] = "settled")

\* a run of more than one chunk through a gate of one slot has returned, one
\* of its extractions having raised and one having returned a failure record
C22_Witness ==
    /\ bpc = "done" /\ NumTasks > chunk_size /\ max_concurrent = 1
    /\ sem_value = max_concurrent
    /\ \E t, u \in 1..NumTasks : extraction[t] = "raise" /\ extraction[u] = "failrec"

(* ------------------------------ C23 ------------------------------------ *)
\* C23: at every point of the run, and in the returned list, the outcome at
\* position i carries the url and title of input entry i, is the record the
\* extraction of entry i returned when it returned one and a failure record
\* when it raised, whatever order the extractions settled in; the returned
\* list has one position per entry.
C23_OutcomeOrder ==
    /\ Len(all_results) <= NumTasks
    /\ bpc = "done" => Len(all_results) = NumTasks
    /\ \A i \in 1..Len(all_results) :
           /\ all_results[i].url = movies[i].url
           /\ all_results[i].title = movies[i].title
           /\ extraction[i] \in {"record", "failrec"} => all_results[i] = returned[i]
           /\ extraction[i] = "raise" => DOMAIN all_results[i] = {"url", "title", "error"}

\* a run of more than one chunk has returned after an extraction settled
\* before the extraction of an earlier entry, with a failure among them
C23_Witness ==
    /\ bpc = "done" /\ overtaken /\ NumTasks > chunk_size
    /\ \E t \in 1..NumTasks : extraction[t] = "raise"
    /\ \E t \in 1..NumTasks : extraction[t] = "record"

(* ------------------------------ C8 ------------------------------------- *)
\* C8: normalize_url is idempotent: normalising the result of normalize_url
\* again returns it unchanged, for every input string, including relative
\* paths without a leading slash, protocol-relative URLs and URLs ending in
\* slashes.
C8_Idempotent == npc = "twice" => url_out2 = url_out

(* ------------------------------ C9 ------------------------------------- *)
\* the words of a title: punctuation deleted, letters lowered, split at
\* whitespace runs
RECURSIVE SplitWords(_, _)
SplitWords(s, cur) ==
    IF s = <<>> THEN (IF cur = <<>> THEN <<>> ELSE <<cur>>)
    ELSE IF s[1] \in Whitespace
         THEN (IF cur = <<>> THEN <<>> ELSE <<cur>>) \o SplitWords(Tail(s), <<>>)
         ELSE SplitWords(Tail(s), Append(cur, s[1]))

TitleWords(t) == SplitWords(lower(DropPunct(t)), <<>>)

\* C9: two titles that differ only in letter case, in the amount or position
\* of whitespace and in the presence of punctuation (also punctuation set
\* off from the words by spaces) have the same normalized title.
C9_Insensitive ==
    (npc = "once" /\ TitleWords(title_a) = TitleWords(title_b)) => ntitle_a = ntitle_b

====
